---- MODULE Spec2Model ----
(***************************************************************************)
(* A model of the npm-graph version engine: the tokenizer, the version     *)
(* builder (a three-state machine over the token sequence), and the        *)
(* comparator Condition::compare.                                          *)
(*                                                                         *)
(* Text is modelled as a sequence of one-character strings, so "1.0" is    *)
(* <<"1", ".", "0">>.  Numbers are naturals; the u32 range check of        *)
(* str::parse::<u32> is made on the digits, so no value above u32::MAX is  *)
(* ever computed.                                                          *)
(***************************************************************************)
EXTENDS Integers, Sequences, FiniteSets

\* ------------------------------------------------------------------------
\* Bounds of the model
\* ------------------------------------------------------------------------
MaxLen == 5          \* longest enumerated input text of Version::parse
MaxNum == 1          \* largest major/minor/patch of a comparator version
MaxComposite == 2    \* longest Composite list handed to the comparator
MaxConditionLen == 4 \* longest enumerated input text of Condition::parse

\* ------------------------------------------------------------------------
\* Characters and text
\* ------------------------------------------------------------------------
Digits == {"0", "1", "2", "3", "4", "5", "6", "7", "8", "9"}

Letters == {"a", "b", "v"}

Whitespace == {" "}

DigitValue ==
    [d \in Digits |->
        CASE d = "0" -> 0 [] d = "1" -> 1 [] d = "2" -> 2 [] d = "3" -> 3
          [] d = "4" -> 4 [] d = "5" -> 5 [] d = "6" -> 6 [] d = "7" -> 7
          [] d = "8" -> 8 [] d = "9" -> 9]

DigitChar ==
    [n \in 0..9 |-> CHOOSE d \in Digits : DigitValue[d] = n]

\* char::is_alphanumeric, on the characters of the model
is_alphanumeric(c) == c \in Digits \cup Letters

\* The decimal digits of u32::MAX = 2^32 - 1
U32MaxDigits == <<"4", "2", "9", "4", "9", "6", "7", "2", "9", "5">>

RECURSIVE DigitsLessEq(_, _)
\* two digit strings of the same length, compared as numbers
DigitsLessEq(a, b) ==
    IF a = <<>> THEN TRUE
    ELSE IF DigitValue[Head(a)] < DigitValue[Head(b)] THEN TRUE
    ELSE IF DigitValue[Head(a)] > DigitValue[Head(b)] THEN FALSE
    ELSE DigitsLessEq(Tail(a), Tail(b))

RECURSIVE StripZeros(_)
StripZeros(s) ==
    IF Len(s) > 1 /\ Head(s) = "0" THEN StripZeros(Tail(s)) ELSE s

\* the value of a digit string fits in a u32
FitsU32(s) ==
    LET t == StripZeros(s) IN
        \/ Len(t) < Len(U32MaxDigits)
        \/ Len(t) = Len(U32MaxDigits) /\ DigitsLessEq(t, U32MaxDigits)

RECURSIVE DecimalValue(_)
DecimalValue(s) ==
    IF s = <<>> THEN 0
    ELSE 10 * DecimalValue(SubSeq(s, 1, Len(s) - 1)) + DigitValue[s[Len(s)]]

RECURSIVE to_string(_)
\* the Display text of a u32: decimal, no leading zero
to_string(n) ==
    IF n < 10 THEN <<DigitChar[n]>>
    ELSE Append(to_string(n \div 10), DigitChar[n % 10])

RECURSIVE TrimStart(_)
TrimStart(s) ==
    IF s # <<>> /\ Head(s) \in Whitespace THEN TrimStart(Tail(s)) ELSE s

RECURSIVE TrimEnd(_)
TrimEnd(s) ==
    IF s # <<>> /\ s[Len(s)] \in Whitespace
    THEN TrimEnd(SubSeq(s, 1, Len(s) - 1)) ELSE s

\* a trim that leaves the whitespace in place
trim_Nothing(s) == s

\* str::trim
trim(s) == TrimEnd(TrimStart(s))

\* ------------------------------------------------------------------------
\* Results, errors, options
\* ------------------------------------------------------------------------
Ok(v) == [ok |-> TRUE, value |-> v]

Err(e) == [ok |-> FALSE, error |-> e]

None == [some |-> FALSE]

Some(x) == [some |-> TRUE, value |-> x]

Unexpected == [kind |-> "Unexpected"]

EmptyInput == [kind |-> "EmptyInput"]

EmptyTokenList == [kind |-> "EmptyTokenList"]

InvalidToken(c) == [kind |-> "InvalidToken", char |-> c]

InvalidTokenAt(i) == [kind |-> "InvalidTokenAt", index |-> i]

MissingSymbolAt(i) == [kind |-> "MissingSymbolAt", index |-> i]

\* ------------------------------------------------------------------------
\* Tokens
\* ------------------------------------------------------------------------
Token(t) == [type |-> t, n |-> 0, s |-> <<>>]

Number(n) == [type |-> "Number", n |-> n, s |-> <<>>]

AlphaNumeric(s) == [type |-> "AlphaNumeric", n |-> 0, s |-> s]

Empty == Token("Empty")

Asterisk == Token("Asterisk")

Dot == Token("Dot")

Hyphen == Token("Hyphen")

Plus == Token("Plus")

Greater == Token("Greater")

GreaterEqual == Token("GreaterEqual")

Less == Token("Less")

LessEqual == Token("LessEqual")

Caret == Token("Caret")

Tilde == Token("Tilde")

Or == Token("Or")

\* ------------------------------------------------------------------------
\* tokenize
\* ------------------------------------------------------------------------
\* input.peek().is_some_and(|c| *c == ch), with pos the index of the
\* character being matched
PeekIs(input, pos, ch) == pos + 1 <= Len(input) /\ input[pos + 1] = ch

\* a lexeme that never grows beyond its first character
RunEnd_FirstOnly(input, pos, n) == pos

RECURSIVE RunEnd(_, _, _)
\* The index of the last character of the lexeme that starts with n at pos:
\* the loop pushes the next character while it is alphanumeric or n is '-'.
RunEnd(input, pos, n) ==
    IF pos + 1 <= Len(input) /\ (is_alphanumeric(input[pos + 1]) \/ n = "-")
    THEN RunEnd(input, pos + 1, n)
    ELSE pos

\* current_token.parse::<u32>(): a non-empty digit string within the u32
\* range gives Number, everything else AlphaNumeric
LexemeToken(current_token) ==
    IF /\ current_token # <<>>
       /\ \A k \in 1..Len(current_token) : current_token[k] \in Digits
       /\ FitsU32(current_token)
    THEN Number(DecimalValue(current_token))
    ELSE AlphaNumeric(current_token)

RECURSIVE Scan(_, _, _)
\* The while loop of tokenize: curr is input[pos]; the arms are tried in
\* the order of the match.
Scan(input, pos, tokens) ==
    IF pos > Len(input) THEN Ok(tokens)
    ELSE LET c == input[pos] IN
        IF c \in {" ", ","} THEN Scan(input, pos + 1, tokens)
        ELSE IF c = "*" THEN Scan(input, pos + 1, Append(tokens, Asterisk))
        ELSE IF c = "." THEN Scan(input, pos + 1, Append(tokens, Dot))
        ELSE IF c = "-" THEN Scan(input, pos + 1, Append(tokens, Hyphen))
        ELSE IF c = "+" THEN Scan(input, pos + 1, Append(tokens, Plus))
        ELSE IF c = "0" THEN Scan(input, pos + 1, Append(tokens, Number(0)))
        ELSE IF c = "~" THEN Scan(input, pos + 1, Append(tokens, Tilde))
        ELSE IF c = "^" THEN Scan(input, pos + 1, Append(tokens, Caret))
        ELSE IF c = ">" THEN
            IF PeekIs(input, pos, "=")
            THEN Scan(input, pos + 2, Append(tokens, GreaterEqual))
            ELSE Scan(input, pos + 1, Append(tokens, Greater))
        ELSE IF c = "<" THEN
            IF PeekIs(input, pos, "=")
            THEN Scan(input, pos + 2, Append(tokens, LessEqual))
            ELSE Scan(input, pos + 1, Append(tokens, Less))
        ELSE IF c = "|" /\ PeekIs(input, pos, "|")
            THEN Scan(input, pos + 2, Append(tokens, Or))
        ELSE IF is_alphanumeric(c) \/ c = "-" THEN
            LET last == RunEnd(input, pos, c) IN
                Scan(input, last + 1,
                     Append(tokens, LexemeToken(SubSeq(input, pos, last))))
        ELSE Err(InvalidToken(c))

\* tokenize without the skip of the prefix
tokenize_NoPrefix(input) == Scan(input, 1, <<>>)

\* tokenize: one leading '=' or 'v' is skipped, then the loop runs
tokenize(input) ==
    IF input # <<>> /\ input[1] \in {"=", "v"}
    THEN Scan(input, 2, <<>>)
    ELSE Scan(input, 1, <<>>)

\* ------------------------------------------------------------------------
\* Version and the version builder
\* ------------------------------------------------------------------------
Version(major, minor, patch, pre_release, metadata) ==
    [major |-> major, minor |-> minor, patch |-> patch,
     pre_release |-> pre_release, metadata |-> metadata]

\* VersionBuilder::default()
VersionBuilder ==
    [major |-> None, minor |-> None, patch |-> None,
     pre_release |-> <<>>, metadata |-> <<>>]

\* What one pass through the match of the loop body leaves behind: the
\* builder, the hyphen accumulator, change_to, and the error of an early
\* return.
Arm(version, hyphen_accumulator, change_to, error) ==
    [version |-> version, hyphen_accumulator |-> hyphen_accumulator,
     change_to |-> change_to, error |-> error]

\* format!("{}{}", hyphen_accumulator, identifier) for the token curr
IdentifierText(hyphen_accumulator, curr) ==
    hyphen_accumulator \o
        (IF curr.type = "Number" THEN to_string(curr.n) ELSE curr.s)

\* MatchCore with a Dot accepted wherever the patch is still free
MatchCore_DotAnywhere(version, hyphen_accumulator, prev, curr, i) ==
    LET keep == Arm(version, hyphen_accumulator, None, None)
        fail == Arm(version, hyphen_accumulator, None, Some(InvalidTokenAt(i)))
    IN
    IF curr.type = "Dot" THEN
        IF ~version.patch.some THEN keep ELSE fail
    ELSE IF curr.type = "Number" THEN
        IF prev = Empty
            THEN Arm([version EXCEPT !.major = Some(curr.n)],
                     hyphen_accumulator, None, None)
        ELSE IF prev = Dot /\ ~version.minor.some
            THEN Arm([version EXCEPT !.minor = Some(curr.n)],
                     hyphen_accumulator, None, None)
        ELSE IF prev = Dot /\ ~version.patch.some
            THEN Arm([version EXCEPT !.patch = Some(curr.n)],
                     hyphen_accumulator, None, None)
        ELSE fail
    ELSE IF curr.type = "Hyphen" /\ prev # Dot
        THEN Arm(version, hyphen_accumulator, Some("PreRelease"), None)
    ELSE IF curr.type = "Plus" /\ prev # Dot
        THEN Arm(version, hyphen_accumulator, Some("Metadata"), None)
    ELSE fail

\* MatchCore with a Number after a Dot always written to minor
MatchCore_MinorAlways(version, hyphen_accumulator, prev, curr, i) ==
    LET keep == Arm(version, hyphen_accumulator, None, None)
        fail == Arm(version, hyphen_accumulator, None, Some(InvalidTokenAt(i)))
    IN
    IF curr.type = "Dot" THEN
        IF prev.type = "Number" /\ ~version.patch.some THEN keep ELSE fail
    ELSE IF curr.type = "Number" THEN
        IF prev = Empty
            THEN Arm([version EXCEPT !.major = Some(curr.n)],
                     hyphen_accumulator, None, None)
        ELSE IF prev = Dot
            THEN Arm([version EXCEPT !.minor = Some(curr.n)],
                     hyphen_accumulator, None, None)
        ELSE fail
    ELSE IF curr.type = "Hyphen" /\ prev # Dot
        THEN Arm(version, hyphen_accumulator, Some("PreRelease"), None)
    ELSE IF curr.type = "Plus" /\ prev # Dot
        THEN Arm(version, hyphen_accumulator, Some("Metadata"), None)
    ELSE fail

\* ParsingState::Core
MatchCore(version, hyphen_accumulator, prev, curr, i) ==
    LET keep == Arm(version, hyphen_accumulator, None, None)
        fail == Arm(version, hyphen_accumulator, None, Some(InvalidTokenAt(i)))
    IN
    IF curr.type = "Dot" THEN
        IF prev.type = "Number" /\ ~version.patch.some THEN keep ELSE fail
    ELSE IF curr.type = "Number" THEN
        IF prev = Empty
            THEN Arm([version EXCEPT !.major = Some(curr.n)],
                     hyphen_accumulator, None, None)
        ELSE IF prev = Dot /\ ~version.minor.some
            THEN Arm([version EXCEPT !.minor = Some(curr.n)],
                     hyphen_accumulator, None, None)
        ELSE IF prev = Dot /\ ~version.patch.some
            THEN Arm([version EXCEPT !.patch = Some(curr.n)],
                     hyphen_accumulator, None, None)
        ELSE fail
    ELSE IF curr.type = "Hyphen" /\ prev # Dot
        THEN Arm(version, hyphen_accumulator, Some("PreRelease"), None)
    ELSE IF curr.type = "Plus" /\ prev # Dot
        THEN Arm(version, hyphen_accumulator, Some("Metadata"), None)
    ELSE fail

\* ParsingState::PreRelease
MatchPreRelease(version, hyphen_accumulator, prev, curr, i) ==
    LET keep == Arm(version, hyphen_accumulator, None, None)
        fail == Arm(version, hyphen_accumulator, None, Some(InvalidTokenAt(i)))
    IN
    IF curr.type = "Dot" THEN
        IF prev.type \in {"AlphaNumeric", "Number"} THEN keep
        ELSE IF prev.type = "Hyphen"
            THEN Arm([version EXCEPT
                        !.pre_release = Append(@, hyphen_accumulator)],
                     <<>>, None, None)
        ELSE fail
    ELSE IF curr.type = "Hyphen" /\ (prev = Dot \/ prev = Hyphen)
        THEN Arm(version, Append(hyphen_accumulator, "-"), None, None)
    ELSE IF /\ curr.type \in {"AlphaNumeric", "Number"}
            /\ (prev = Empty \/ prev = Dot \/ prev = Hyphen)
        THEN Arm([version EXCEPT
                    !.pre_release =
                        Append(@, IdentifierText(hyphen_accumulator, curr))],
                 <<>>, None, None)
    ELSE IF curr.type = "Plus" /\ prev # Dot
        THEN Arm(version, hyphen_accumulator, Some("Metadata"), None)
    ELSE fail

\* MatchMetadata with the identifiers pushed to pre_release, as in the arm
\* it was copied from
MatchMetadata_PushesPreRelease(version, hyphen_accumulator, prev, curr, i) ==
    LET keep == Arm(version, hyphen_accumulator, None, None)
        fail == Arm(version, hyphen_accumulator, None, Some(InvalidTokenAt(i)))
    IN
    IF curr.type = "Dot" THEN
        IF prev.type \in {"AlphaNumeric", "Number"} THEN keep
        ELSE IF prev.type = "Hyphen"
            THEN Arm([version EXCEPT
                        !.metadata = Append(@, hyphen_accumulator)],
                     <<>>, None, None)
        ELSE fail
    ELSE IF curr.type = "Hyphen" /\ (prev = Dot \/ prev = Hyphen)
        THEN Arm(version, Append(hyphen_accumulator, "-"), None, None)
    ELSE IF /\ curr.type \in {"AlphaNumeric", "Number"}
            /\ (prev = Empty \/ prev = Dot \/ prev = Hyphen)
        THEN Arm([version EXCEPT
                    !.pre_release =
                        Append(@, IdentifierText(hyphen_accumulator, curr))],
                 <<>>, None, None)
    ELSE fail

\* ParsingState::Metadata
MatchMetadata(version, hyphen_accumulator, prev, curr, i) ==
    LET keep == Arm(version, hyphen_accumulator, None, None)
        fail == Arm(version, hyphen_accumulator, None, Some(InvalidTokenAt(i)))
    IN
    IF curr.type = "Dot" THEN
        IF prev.type \in {"AlphaNumeric", "Number"} THEN keep
        ELSE IF prev.type = "Hyphen"
            THEN Arm([version EXCEPT
                        !.metadata = Append(@, hyphen_accumulator)],
                     <<>>, None, None)
        ELSE fail
    ELSE IF curr.type = "Hyphen" /\ (prev = Dot \/ prev = Hyphen)
        THEN Arm(version, Append(hyphen_accumulator, "-"), None, None)
    ELSE IF /\ curr.type \in {"AlphaNumeric", "Number"}
            /\ (prev = Empty \/ prev = Dot \/ prev = Hyphen)
        THEN Arm([version EXCEPT
                    !.metadata =
                        Append(@, IdentifierText(hyphen_accumulator, curr))],
                 <<>>, None, None)
    ELSE fail

\* The state of the for loop of build_from_tokens between two iterations
LoopState(version, state, prev, hyphen_accumulator, error) ==
    [version |-> version, state |-> state, prev |-> prev,
     hyphen_accumulator |-> hyphen_accumulator, error |-> error]

\* The locals of build_from_tokens before the first iteration
LoopStart == LoopState(VersionBuilder, "Core", Empty, <<>>, None)

\* LoopBody with prev set to curr after a change of state as well
LoopBody_KeepsPrev(b, curr, i) ==
    LET arm == IF b.state = "Core"
                 THEN MatchCore(b.version, b.hyphen_accumulator, b.prev, curr, i)
               ELSE IF b.state = "PreRelease"
                 THEN MatchPreRelease(b.version, b.hyphen_accumulator, b.prev, curr, i)
               ELSE MatchMetadata(b.version, b.hyphen_accumulator, b.prev, curr, i)
    IN
    IF arm.error.some THEN [b EXCEPT !.error = arm.error]
    ELSE IF arm.change_to.some
        THEN LoopState(arm.version, arm.change_to.value, curr,
                       arm.hyphen_accumulator, None)
    ELSE LoopState(arm.version, b.state, curr, arm.hyphen_accumulator, None)

\* One iteration of the for loop: the match on the state, then the
\* change of state or the update of prev
LoopBody(b, curr, i) ==
    LET arm == IF b.state = "Core"
                 THEN MatchCore(b.version, b.hyphen_accumulator, b.prev, curr, i)
               ELSE IF b.state = "PreRelease"
                 THEN MatchPreRelease(b.version, b.hyphen_accumulator, b.prev, curr, i)
               ELSE MatchMetadata(b.version, b.hyphen_accumulator, b.prev, curr, i)
    IN
    IF arm.error.some THEN [b EXCEPT !.error = arm.error]
    ELSE IF arm.change_to.some
        THEN LoopState(arm.version, arm.change_to.value, Empty,
                       arm.hyphen_accumulator, None)
    ELSE LoopState(arm.version, b.state, curr, arm.hyphen_accumulator, None)

\* the result with a major that defaults to 0 like minor and patch
BuildVersion_MajorDefault(version) ==
    Ok(Version(IF version.major.some THEN version.major.value ELSE 0,
               IF version.minor.some THEN version.minor.value ELSE 0,
               IF version.patch.some THEN version.patch.value ELSE 0,
               version.pre_release, version.metadata))

\* What build_from_tokens returns once every token has been consumed
BuildVersion(version) ==
    IF ~version.major.some THEN Err(MissingSymbolAt(0))
    ELSE Ok(Version(version.major.value,
                    IF version.minor.some THEN version.minor.value ELSE 0,
                    IF version.patch.some THEN version.patch.value ELSE 0,
                    version.pre_release, version.metadata))

RECURSIVE RunLoop(_, _, _)
RunLoop(b, tokens, i) ==
    IF i >= Len(tokens) THEN b
    ELSE LET b2 == LoopBody(b, tokens[i + 1], i) IN
        IF b2.error.some THEN b2 ELSE RunLoop(b2, tokens, i + 1)

\* semver::build_from_tokens as a function of the token slice
build_from_tokens(tokens) ==
    IF Len(tokens) = 0 THEN Err(EmptyTokenList)
    ELSE LET b == RunLoop(LoopStart, tokens, 0) IN
        IF b.error.some THEN Err(b.error.value) ELSE BuildVersion(b.version)

\* Version::parse as a function of the text
Version_parse(input) ==
    LET trimmed == trim(input) IN
    IF Len(trimmed) = 0 THEN Err(EmptyInput)
    ELSE LET t == tokenize(trimmed) IN
        IF ~t.ok THEN Err(t.error) ELSE build_from_tokens(t.value)

\* ------------------------------------------------------------------------
\* Conditions and Condition::compare
\* ------------------------------------------------------------------------
\* ConditionRange: kind is Less, LessEqual, Greater or GreaterEqual
ConditionRange(kind, v) == [kind |-> kind, v |-> v]

Any == [kind |-> "Any"]

Simple(v) == [kind |-> "Simple", v |-> v]

Compatible(v) == [kind |-> "Compatible", v |-> v]

CompatibleWithMostRecent(v) == [kind |-> "CompatibleWithMostRecent", v |-> v]

\* Range(left, right): right is None or Some(ConditionRange)
Range(left, right) == [kind |-> "Range", left |-> left, right |-> right]

Composite(conditions) == [kind |-> "Composite", conditions |-> conditions]

\* A call of compare either returns a bool or aborts in unreachable!()
Returned(b) == [aborted |-> FALSE, value |-> b]

Aborted == [aborted |-> TRUE, value |-> FALSE]

\* Version == Version: all five fields
VersionEq(v, w) ==
    /\ v.major = w.major
    /\ v.minor = w.minor
    /\ v.patch = w.patch
    /\ v.pre_release = w.pre_release
    /\ v.metadata = w.metadata

\* Version::get_version_offset: the ordering key (major, minor, patch)
get_version_offset(v) == <<v.major, v.minor, v.patch>>

\* the order of two keys: a < b
OffsetLess(a, b) ==
    \/ a[1] < b[1]
    \/ a[1] = b[1] /\ a[2] < b[2]
    \/ a[1] = b[1] /\ a[2] = b[2] /\ a[3] < b[3]

OffsetLessEq(a, b) == OffsetLess(a, b) \/ a = b

\* compare_Simple with the equality taken on major, minor and patch only
compare_Simple_CoreOnly(v, version) ==
    Returned(get_version_offset(v) = get_version_offset(version))

compare_Simple(v, version) == Returned(VersionEq(v, version))

\* compare_Compatible without the test of the minor
compare_Compatible_AnyMinor(v, version) ==
    Returned(/\ v.major = version.major
             /\ v.patch <= version.patch)

\* compare_Compatible with a strict comparison of the patches
compare_Compatible_StrictPatch(v, version) ==
    Returned(/\ v.major = version.major
             /\ v.minor = version.minor
             /\ v.patch < version.patch)

compare_Compatible(v, version) ==
    Returned(/\ v.major = version.major
             /\ v.minor = version.minor
             /\ v.patch <= version.patch)

\* compare_CompatibleWithMostRecent with the patches compared whatever the
\* minors are
compare_CompatibleWithMostRecent_PatchAlone(v, version) ==
    Returned(~(\/ v.major # version.major
               \/ v.minor > version.minor
               \/ v.patch > version.patch))

compare_CompatibleWithMostRecent(v, version) ==
    Returned(~(\/ v.major # version.major
               \/ v.minor > version.minor
               \/ (v.minor = version.minor /\ v.patch > version.patch)))

\* compare_Range with Less taken as LessEqual
compare_Range_LessInclusive(left, right, version) ==
    LET offset == get_version_offset(version) IN
    IF left.kind \notin {"Greater", "GreaterEqual"} THEN Aborted
    ELSE LET left_offset ==
                IF left.kind = "Greater"
                THEN OffsetLess(get_version_offset(left.v), offset)
                ELSE OffsetLessEq(get_version_offset(left.v), offset)
         IN
         IF ~left_offset THEN Returned(FALSE)
         ELSE IF ~right.some THEN Returned(TRUE)
         ELSE IF right.value.kind \in {"Less", "LessEqual"}
            THEN Returned(OffsetLessEq(offset, get_version_offset(right.value.v)))
         ELSE Aborted

\* compare_Range without the LessEqual arm of the match on the upper bound
compare_Range_NoLessEqualArm(left, right, version) ==
    LET offset == get_version_offset(version) IN
    IF left.kind \notin {"Greater", "GreaterEqual"} THEN Aborted
    ELSE LET left_offset ==
                IF left.kind = "Greater"
                THEN OffsetLess(get_version_offset(left.v), offset)
                ELSE OffsetLessEq(get_version_offset(left.v), offset)
         IN
         IF ~left_offset THEN Returned(FALSE)
         ELSE IF ~right.some THEN Returned(TRUE)
         ELSE IF right.value.kind = "Less"
            THEN Returned(OffsetLess(offset, get_version_offset(right.value.v)))
         ELSE Aborted

compare_Range(left, right, version) ==
    LET offset == get_version_offset(version) IN
    IF left.kind \notin {"Greater", "GreaterEqual"} THEN Aborted
    ELSE LET left_offset ==
                IF left.kind = "Greater"
                THEN OffsetLess(get_version_offset(left.v), offset)
                ELSE OffsetLessEq(get_version_offset(left.v), offset)
         IN
         IF ~left_offset THEN Returned(FALSE)
         ELSE IF ~right.some THEN Returned(TRUE)
         ELSE IF right.value.kind = "Less"
            THEN Returned(OffsetLess(offset, get_version_offset(right.value.v)))
         ELSE IF right.value.kind = "LessEqual"
            THEN Returned(OffsetLessEq(offset, get_version_offset(right.value.v)))
         ELSE Aborted

RECURSIVE Find(_, _)
\* conditions.iter().find(|c| c.compare(version)) over the outcomes of the
\* elements from position k on: the elements are called in order, the
\* first true ends the search, and an abort of a called element aborts it.
Find(outcomes, k) ==
    IF k > Len(outcomes) THEN Returned(FALSE)
    ELSE IF outcomes[k].aborted THEN Aborted
    ELSE IF outcomes[k].value THEN Returned(TRUE)
    ELSE Find(outcomes, k + 1)

\* compare_Composite with all() in the place of find()
compare_Composite_All(outcomes) ==
    IF \E k \in 1..Len(outcomes) : outcomes[k].aborted THEN Aborted
    ELSE Returned(\A k \in 1..Len(outcomes) : outcomes[k].value)

compare_Composite(outcomes) == Find(outcomes, 1)

RECURSIVE compare(_, _)
\* Condition::compare
compare(self, version) ==
    IF self.kind = "Any" THEN Returned(TRUE)
    ELSE IF self.kind = "Simple" THEN compare_Simple(self.v, version)
    ELSE IF self.kind = "Compatible" THEN compare_Compatible(self.v, version)
    ELSE IF self.kind = "CompatibleWithMostRecent"
        THEN compare_CompatibleWithMostRecent(self.v, version)
    ELSE IF self.kind = "Range"
        THEN compare_Range(self.left, self.right, version)
    ELSE compare_Composite(
            [k \in 1..Len(self.conditions) |->
                compare(self.conditions[k], version)])

\* ------------------------------------------------------------------------
\* Condition::parse: the operators of condition.rs
\* ------------------------------------------------------------------------
\* tokens.iter().position(..): the 0-based index of the first token whose
\* type is one of types
Position(tokens, types) ==
    LET hits == {k \in 1..Len(tokens) : tokens[k].type \in types} IN
    IF hits = {} THEN None
    ELSE Some((CHOOSE k \in hits : \A j \in hits : k <= j) - 1)

\* &tokens[from..to], 0-based and half-open
Slice(tokens, from, to) == SubSeq(tokens, from + 1, to)

\* &tokens[from..]
SliceFrom(tokens, from) == SubSeq(tokens, from + 1, Len(tokens))

\* the ? operator: the error of r is returned at once, its value goes on
Try(r, Then(_)) == IF ~r.ok THEN Err(r.error) ELSE Then(r.value)

\* what a call that reached unreachable!() leaves in the slot
Unreachable == [kind |-> "unreachable"]

range_condition_from_token_AsUpper(token, version) ==
    IF token = Greater THEN ConditionRange("Less", version)
    ELSE IF token = GreaterEqual THEN ConditionRange("LessEqual", version)
    ELSE Unreachable

range_condition_from_token(token, version) ==
    IF token = Greater THEN ConditionRange("Greater", version)
    ELSE IF token = GreaterEqual THEN ConditionRange("GreaterEqual", version)
    ELSE Unreachable

build_range_condition_from_tokens_WholeTail(tokens, left_token) ==
    LET v == build_from_tokens(SliceFrom(tokens, 1)) IN
    IF ~v.ok THEN Err(v.error)
    ELSE Ok(Range(range_condition_from_token(left_token, v.value), None))

\* build_range_condition_from_tokens with the trailing slice cut after
\* the token that the scan found
build_range_condition_from_tokens_CutAfter(tokens, left_token) ==
    LET idx == Position(tokens, {"Less", "LessEqual"}) IN
    IF ~idx.some
      THEN Try(build_from_tokens(SliceFrom(tokens, 1)), LAMBDA v :
               Ok(Range(range_condition_from_token(left_token, v), None)))
    ELSE
      Try(build_from_tokens(Slice(tokens, 1, idx.value)), LAMBDA v1 :
          LET left_condition == range_condition_from_token(left_token, v1)
              rest == SliceFrom(tokens, idx.value + 1)
          IN
          IF rest # <<>> /\ rest[1] = Less
            THEN Try(build_from_tokens(SliceFrom(rest, 1)), LAMBDA v2 :
                     Ok(Range(left_condition,
                              Some(ConditionRange("Less", v2)))))
          ELSE IF rest # <<>> /\ rest[1] = LessEqual
            THEN Try(build_from_tokens(SliceFrom(rest, 1)), LAMBDA v2 :
                     Ok(Range(left_condition,
                              Some(ConditionRange("LessEqual", v2)))))
          ELSE Err(Unexpected))

build_range_condition_from_tokens(tokens, left_token) ==
    LET idx == Position(tokens, {"Less", "LessEqual"}) IN
    IF ~idx.some
      THEN Try(build_from_tokens(SliceFrom(tokens, 1)), LAMBDA v :
               Ok(Range(range_condition_from_token(left_token, v), None)))
    ELSE
      Try(build_from_tokens(Slice(tokens, 1, idx.value)), LAMBDA v1 :
          LET left_condition == range_condition_from_token(left_token, v1)
              rest == SliceFrom(tokens, idx.value)
          IN
          IF rest[1] = Less
            THEN Try(build_from_tokens(SliceFrom(rest, 1)), LAMBDA v2 :
                     Ok(Range(left_condition,
                              Some(ConditionRange("Less", v2)))))
          ELSE IF rest[1] = LessEqual
            THEN Try(build_from_tokens(SliceFrom(rest, 1)), LAMBDA v2 :
                     Ok(Range(left_condition,
                              Some(ConditionRange("LessEqual", v2)))))
          ELSE Err(Unexpected))

\* build_from_tokens of condition.rs: the match on the first token
MatchFirst_CaretAsTilde(tokens) ==
    IF tokens[1] = Asterisk THEN Ok(Any)
    ELSE IF tokens[1] \in {Caret, Tilde}
      THEN LET v == build_from_tokens(SliceFrom(tokens, 1)) IN
           IF ~v.ok THEN Err(v.error)
           ELSE Ok(Compatible(v.value))
    ELSE IF tokens[1] = Greater
      THEN build_range_condition_from_tokens(tokens, Greater)
    ELSE IF tokens[1] = GreaterEqual
      THEN build_range_condition_from_tokens(tokens, GreaterEqual)
    ELSE LET v == build_from_tokens(tokens) IN
         IF ~v.ok THEN Err(v.error)
         ELSE Ok(Simple(v.value))

MatchFirst(tokens) ==
    IF tokens[1] = Asterisk THEN Ok(Any)
    ELSE IF tokens[1] = Caret
      THEN Try(build_from_tokens(SliceFrom(tokens, 1)), LAMBDA version :
               Ok(CompatibleWithMostRecent(version)))
    ELSE IF tokens[1] = Tilde
      THEN Try(build_from_tokens(SliceFrom(tokens, 1)), LAMBDA version :
               Ok(Compatible(version)))
    ELSE IF tokens[1] = Greater
      THEN build_range_condition_from_tokens(tokens, Greater)
    ELSE IF tokens[1] = GreaterEqual
      THEN build_range_condition_from_tokens(tokens, GreaterEqual)
    ELSE Try(build_from_tokens(tokens), LAMBDA version :
             Ok(Simple(version)))

RECURSIVE Condition_build_from_tokens(_)

RECURSIVE SplitOr(_, _)

\* build_from_tokens of condition.rs: the while loop over the Or tokens
\* and the last alternative after it
SplitOr_DropsLast(tokens, conditions) ==
    LET idx == Position(tokens, {"Or"}) IN
    IF idx.some
      THEN LET condition ==
                   Condition_build_from_tokens(Slice(tokens, 0, idx.value)) IN
           IF ~condition.ok THEN Err(condition.error)
           ELSE SplitOr(SliceFrom(tokens, idx.value + 1),
                        Append(conditions, condition.value))
    ELSE LET condition == Condition_build_from_tokens(tokens) IN
         IF ~condition.ok THEN Err(condition.error)
         ELSE Ok(Composite(conditions))

SplitOr(tokens, conditions) ==
    LET idx == Position(tokens, {"Or"}) IN
    IF idx.some
      THEN Try(Condition_build_from_tokens(Slice(tokens, 0, idx.value)),
               LAMBDA condition :
                   SplitOr(SliceFrom(tokens, idx.value + 1),
                           Append(conditions, condition)))
    ELSE Try(Condition_build_from_tokens(tokens), LAMBDA condition :
             Ok(Composite(Append(conditions, condition))))

\* build_from_tokens of condition.rs
Condition_build_from_tokens(tokens) ==
    IF Len(tokens) = 0 THEN Err(EmptyTokenList)
    ELSE IF \E k \in 1..Len(tokens) : tokens[k] = Or
      THEN SplitOr(tokens, <<>>)
    ELSE MatchFirst(tokens)

\* Condition::parse
Condition_parse(input) ==
    LET trimmed == trim(input) IN
    IF Len(trimmed) = 0 THEN Err(EmptyInput)
    ELSE LET t == tokenize(trimmed) IN
         IF ~t.ok THEN Err(t.error)
         ELSE Condition_build_from_tokens(t.value)

\* ------------------------------------------------------------------------
\* Display
\* ------------------------------------------------------------------------
RECURSIVE join(_, _)
\* [String]::join(sep)
join(strings, sep) ==
    IF strings = <<>> THEN <<>>
    ELSE IF Len(strings) = 1 THEN strings[1]
    ELSE strings[1] \o sep \o join(Tail(strings), sep)

\* Display for Version with minor and patch in each other's place
Version_fmt_PatchBeforeMinor(self) ==
    to_string(self.major) \o <<".">> \o to_string(self.patch) \o <<".">>
        \o to_string(self.minor)

\* Display for Version: the metadata, like the pre_release, follows a '-'
Version_fmt(self) ==
    to_string(self.major) \o <<".">> \o to_string(self.minor) \o <<".">>
        \o to_string(self.patch)
        \o (IF Len(self.pre_release) > 0
              THEN <<"-">> \o join(self.pre_release, <<".">>)
              ELSE <<>>)
        \o (IF Len(self.metadata) > 0
              THEN <<"-">> \o join(self.metadata, <<".">>)
              ELSE <<>>)

\* Display for ConditionRange
ConditionRange_fmt(self) ==
    IF self.kind = "Less" THEN <<"<">> \o Version_fmt(self.v)
    ELSE IF self.kind = "LessEqual" THEN <<"<", "=">> \o Version_fmt(self.v)
    ELSE IF self.kind = "Greater" THEN <<">">> \o Version_fmt(self.v)
    ELSE <<">", "=">> \o Version_fmt(self.v)

RECURSIVE Condition_fmt(_)

\* Display for Condition with the alternatives joined by one bar
Condition_fmt_SingleBar(self) ==
    IF self.kind = "Any" THEN <<"*">>
    ELSE IF self.kind = "Simple" THEN Version_fmt(self.v)
    ELSE IF self.kind = "Compatible" THEN <<"~">> \o Version_fmt(self.v)
    ELSE IF self.kind = "CompatibleWithMostRecent"
      THEN <<"^">> \o Version_fmt(self.v)
    ELSE IF self.kind = "Range"
      THEN ConditionRange_fmt(self.left)
           \o (IF self.right.some
                 THEN <<" ">> \o ConditionRange_fmt(self.right.value)
                 ELSE <<>>)
    ELSE join([k \in 1..Len(self.conditions) |->
                   Condition_fmt(self.conditions[k])],
              <<" ", "|", " ">>)

\* Display for Condition
Condition_fmt(self) ==
    IF self.kind = "Any" THEN <<"*">>
    ELSE IF self.kind = "Simple" THEN Version_fmt(self.v)
    ELSE IF self.kind = "Compatible" THEN <<"~">> \o Version_fmt(self.v)
    ELSE IF self.kind = "CompatibleWithMostRecent"
      THEN <<"^">> \o Version_fmt(self.v)
    ELSE IF self.kind = "Range"
      THEN ConditionRange_fmt(self.left)
           \o (IF self.right.some
                 THEN <<" ">> \o ConditionRange_fmt(self.right.value)
                 ELSE <<>>)
    ELSE join([k \in 1..Len(self.conditions) |->
                   Condition_fmt(self.conditions[k])],
              <<" ", "|", "|", " ">>)

\* ------------------------------------------------------------------------
\* The inputs of the model
\* ------------------------------------------------------------------------
\* the characters of the enumerated version texts
Alphabet == {"0", "1", "a", ".", "-", "+"}

\* texts that the enumeration does not reach: the u32 boundary,
\* surrounding whitespace, longer pre-release and metadata segments,
\* tokens after a full core, and the = and v prefixes
LongInputs ==
    { <<"1", "-", "a", ".", "-", "a">>,
      <<"1", "-", "a", ".", "-", "-", ".", "b">>,
      <<"1", "-", "a", ".", "-", "-">>,
      <<"1", "-", "a", ".", "-", "-", "+", "b">>,
      <<"1", ".", "0", ".", "0", "-", "a", "-", "b">>,
      <<"1", ".", "0", ".", "0", "-", "a", "+", "b", ".", "a">>,
      <<"1", "0", "-", "a", ".", "b", ".", "-", "-", ".", "a", ".", "1", "1", ".", "a", "1">>,
      <<"1", "0", "+", "a", ".", "b", ".", "-", "-", ".", "a", ".", "1", "1", ".", "a", "1">>,
      <<"2", "1", "4", "7", "4", "8", "3", "6", "4", "7">>,
      <<"4", "2", "9", "4", "9", "6", "7", "2", "9", "6">>,
      <<"1", ".", "4", "2", "9", "4", "9", "6", "7", "2", "9", "6">>,
      <<"9", "9", "9", "9", "9", "9", "9", "9", "9", "9", "9">>,
      <<" ", "1", ".", "1", "0", " ">>,
      <<" ", " ">>,
      <<"1", ".", "0", ".", "0", ".">>,
      <<"1", ".", "0", ".", "0", ".", "1">>,
      <<"1", ".", "0", ".", "0", "1">>,
      <<"1", ".", "0", ".", "1", "-", ".">>,
      <<"v", "1", ".", "0">>,
      <<"=", "1", ".", "0">>,
      <<"v", "v", "1">>,
      <<"=", "v", "1">>,
      <<"v", "=", "1">>,
      <<"=", "=", "1">>,
      <<"v", "0", "1">>,
      <<" ", "v", "1", "0", "a", " ">>,
      <<"1", "-", "0", "a", "0", ".", "1", "0", "b">> }

Inputs == (UNION {[1..k -> Alphabet] : k \in 0..MaxLen}) \cup LongInputs

Numbers == 0..MaxNum

Identifiers == {<<>>, <<<<"a">>>>}

\* the versions handed to the comparator
Versions ==
    {Version(a, b, c, p, m) :
        a \in Numbers, b \in Numbers, c \in Numbers,
        p \in Identifiers, m \in Identifiers}

PlainVersions == {v \in Versions : v.pre_release = <<>> /\ v.metadata = <<>>}

RangeKinds == {"Less", "LessEqual", "Greater", "GreaterEqual"}

\* the versions of the range bounds: the plain ones, and some with
\* pre_release and metadata
BoundVersions ==
    PlainVersions
    \cup {v \in Versions : /\ v.minor = 0 /\ v.patch = 0
                           /\ v.pre_release # <<>> /\ v.metadata # <<>>}

ConditionRanges == {ConditionRange(k, v) : k \in RangeKinds, v \in BoundVersions}

Ranges ==
    {Range(l, r) :
        l \in ConditionRanges,
        r \in {None} \cup {Some(u) : u \in ConditionRanges}}

\* conditions that are not Composite
Atoms ==
    {Any}
    \cup {Simple(v) : v \in Versions}
    \cup {Compatible(v) : v \in Versions}
    \cup {CompatibleWithMostRecent(v) : v \in Versions}
    \cup Ranges

\* the elements of the Composite lists
Elements ==
    {Any, Composite(<<>>), Composite(<<Any>>)}
    \cup {Simple(v) : v \in {w \in PlainVersions : w.minor = 0 /\ w.patch = 0}}
    \cup {CompatibleWithMostRecent(v) :
            v \in {w \in PlainVersions : w.minor = 0 /\ w.patch = MaxNum}}
    \cup {Range(ConditionRange(k, v), None) :
            k \in {"Less", "GreaterEqual"},
            v \in {w \in PlainVersions : w.minor = MaxNum /\ w.patch = 0}}

Composites ==
    {Composite(cs) : cs \in UNION {[1..k -> Elements] : k \in 0..MaxComposite}}

Conditions == Atoms \cup Composites

\* the characters of the enumerated condition texts
ConditionAlphabet == {"1", ".", "*", "^", "~", ">", "<", "=", "|", ","}

\* condition texts that the enumeration does not reach: whitespace, the
\* v prefix, longer ranges, more than one ||
LongConditionInputs ==
    { <<" ">>,
      <<" ", ",", " ">>,
      <<"v">>,
      <<" ", "v", " ">>,
      <<"v", "1">>,
      <<"*", " ", "1", ".", "2">>,
      <<"1", " ", "|", "|", " ">>,
      <<"^", "1", ".", "2", ".", "3">>,
      <<"~", "1", ".", "2", ".", ".">>,
      <<">", "1", ".", "0", " ", "<", "2", ".", ".">>,
      <<">", "=", "1", ".", "0", ".", "0", " ", "<", "2", ".", "0", ".", "0">>,
      <<">", "1", ".", "2", " ", "<", "=", "2", "-", "a", ".", "1">>,
      <<">", "1", " ", "<", "2", " ", "<", "3">>,
      <<"1", "|", "|", "2", "|", "|", "3">>,
      <<"^", "1", ".", "0", " ", "|", "|", " ", "~", "2", " ", "|", "|", " ", "*">>,
      <<"1", "|", "|", ">", "1", "<", "2", "|", "|", "*", "1">>,
      <<"1", "|", "|", "2", "|", "|", "3", ".", ".">>,
      <<"1", "|", "|", "|", "|", "2">>,
      <<"1", "|", "|", "^", "|", "|", "2">>,
      <<"1", "|", "|", "2", "|", "|">> }

ConditionInputs ==
    (UNION {[1..k -> ConditionAlphabet] : k \in 0..MaxConditionLen})
    \cup LongConditionInputs

\* ------------------------------------------------------------------------
\* State
\* ------------------------------------------------------------------------
VARIABLES
    pc,                  \* where the call in progress stands
    input,               \* the text handed to Version::parse
    tokens,              \* the token sequence of build_from_tokens
    i,                   \* the index of the for loop
    state,               \* ParsingState
    prev,                \* the previously consumed token
    hyphen_accumulator,
    version,             \* the VersionBuilder
    result,              \* what Version::parse returned, once it has
    self,                \* the Condition of a compare call
    candidate,           \* the Version handed to compare
    outcome              \* what compare did, once it has

locals == <<tokens, i, state, prev, hyphen_accumulator, version>>

parser == <<input, tokens, i, state, prev, hyphen_accumulator, version, result>>

comparator == <<self, candidate, outcome>>

vars == <<pc, input, tokens, i, state, prev, hyphen_accumulator, version,
          result, self, candidate, outcome>>

ParserIdle ==
    /\ tokens = <<>>
    /\ i = 0
    /\ state = "Core"
    /\ prev = Empty
    /\ hyphen_accumulator = <<>>
    /\ version = VersionBuilder
    /\ result = None

ComparatorIdle ==
    /\ self = Any
    /\ candidate = Version(0, 0, 0, <<>>, <<>>)
    /\ outcome = None

\* ------------------------------------------------------------------------
\* Version::parse, one loop iteration at a time
\* ------------------------------------------------------------------------
Init ==
    /\ pc = "parse"
    /\ input \in Inputs
    /\ ParserIdle
    /\ ComparatorIdle

\* Version::parse up to the first iteration of the loop of
\* build_from_tokens: trim, the empty checks, tokenize, the locals
Parse ==
    /\ pc = "parse"
    /\ LET trimmed == trim(input)
           t == tokenize(trimmed)
       IN
       IF Len(trimmed) = 0
         THEN result' = Some(Err(EmptyInput)) /\ pc' = "done" /\ UNCHANGED locals
       ELSE IF ~t.ok
         THEN result' = Some(Err(t.error)) /\ pc' = "done" /\ UNCHANGED locals
       ELSE IF Len(t.value) = 0
         THEN result' = Some(Err(EmptyTokenList)) /\ pc' = "done" /\ UNCHANGED locals
       ELSE /\ tokens' = t.value
            /\ i' = 0
            /\ version' = LoopStart.version
            /\ state' = LoopStart.state
            /\ prev' = LoopStart.prev
            /\ hyphen_accumulator' = LoopStart.hyphen_accumulator
            /\ pc' = "loop"
            /\ UNCHANGED result
    /\ UNCHANGED <<input, comparator>>

\* one iteration of the for loop on tokens[i]
Iterate ==
    LET b == LoopBody(LoopState(version, state, prev, hyphen_accumulator, None),
                      tokens[i + 1], i)
    IN
    IF b.error.some
      THEN /\ result' = Some(Err(b.error.value))
           /\ pc' = "done"
           /\ UNCHANGED locals
      ELSE /\ version' = b.version
           /\ state' = b.state
           /\ prev' = b.prev
           /\ hyphen_accumulator' = b.hyphen_accumulator
           /\ i' = i + 1
           /\ UNCHANGED <<pc, result, tokens>>

CoreToken ==
    /\ pc = "loop" /\ i < Len(tokens) /\ state = "Core"
    /\ Iterate
    /\ UNCHANGED <<input, comparator>>

PreReleaseToken ==
    /\ pc = "loop" /\ i < Len(tokens) /\ state = "PreRelease"
    /\ Iterate
    /\ UNCHANGED <<input, comparator>>

MetadataToken ==
    /\ pc = "loop" /\ i < Len(tokens) /\ state = "Metadata"
    /\ Iterate
    /\ UNCHANGED <<input, comparator>>

\* the end of build_from_tokens, after the last token
Return ==
    /\ pc = "loop" /\ i = Len(tokens)
    /\ result' = Some(BuildVersion(version))
    /\ pc' = "done"
    /\ UNCHANGED <<input, locals, comparator>>

Next == Parse \/ CoreToken \/ PreReleaseToken \/ MetadataToken \/ Return

Spec == Init /\ [][Next]_vars

\* ------------------------------------------------------------------------
\* Condition::compare
\* ------------------------------------------------------------------------
InitCompare ==
    /\ pc = "compare"
    /\ input = <<>>
    /\ ParserIdle
    /\ self \in Conditions
    /\ candidate \in Versions
    /\ outcome = None

Compare ==
    /\ pc = "compare"
    /\ outcome' = Some(compare(self, candidate))
    /\ pc' = "done"
    /\ UNCHANGED <<parser, self, candidate>>

NextCompare == Compare

SpecCompare == InitCompare /\ [][NextCompare]_vars

\* ------------------------------------------------------------------------
\* Condition::parse
\* ------------------------------------------------------------------------
InitCondition ==
    /\ pc = "condition"
    /\ input \in ConditionInputs
    /\ ParserIdle
    /\ ComparatorIdle

\* Condition::parse up to the call of build_from_tokens: trim, the empty
\* check, tokenize
ParseCondition ==
    /\ pc = "condition"
    /\ LET trimmed == trim(input)
           t == tokenize(trimmed)
       IN
       IF Len(trimmed) = 0
         THEN result' = Some(Err(EmptyInput)) /\ pc' = "done" /\ UNCHANGED tokens
       ELSE IF ~t.ok
         THEN result' = Some(Err(t.error)) /\ pc' = "done" /\ UNCHANGED tokens
       ELSE tokens' = t.value /\ pc' = "build" /\ UNCHANGED result
    /\ UNCHANGED <<input, i, state, prev, hyphen_accumulator, version, comparator>>

\* build_from_tokens on a token list without Or: the empty check and the
\* match on the first token
BuildAlternative ==
    /\ pc = "build"
    /\ ~ \E k \in 1..Len(tokens) : tokens[k] = Or
    /\ result' = Some(Condition_build_from_tokens(tokens))
    /\ pc' = "done"
    /\ UNCHANGED <<input, locals, comparator>>

\* build_from_tokens on a token list with Or: one alternative after the
\* other, up to the first that fails
BuildComposite ==
    /\ pc = "build"
    /\ \E k \in 1..Len(tokens) : tokens[k] = Or
    /\ result' = Some(Condition_build_from_tokens(tokens))
    /\ pc' = "done"
    /\ UNCHANGED <<input, locals, comparator>>

NextCondition == ParseCondition \/ BuildAlternative \/ BuildComposite

SpecCondition == InitCondition /\ [][NextCondition]_vars

\* ------------------------------------------------------------------------
\* Helpers of the properties
\* ------------------------------------------------------------------------
Done == pc = "done"

Compared == pc = "done" /\ outcome.some

Parsed == pc = "done" /\ result.some

\* the place of a version in the lexicographic order of (major, minor,
\* patch), as one number
LexRank(v) == (v.major * (MaxNum + 1) + v.minor) * (MaxNum + 1) + v.patch

LowerKinds == {"Greater", "GreaterEqual"}

UpperKinds == {"Less", "LessEqual"}

RECURSIVE WellFormed(_)
\* every Range has a Greater/GreaterEqual first slot and a second slot
\* that is absent or Less/LessEqual
WellFormed(c) ==
    IF c.kind = "Range"
      THEN /\ c.left.kind \in LowerKinds
           /\ (c.right.some => c.right.value.kind \in UpperKinds)
    ELSE IF c.kind = "Composite"
      THEN \A k \in 1..Len(c.conditions) : WellFormed(c.conditions[k])
    ELSE TRUE

Reverse(s) == [k \in 1..Len(s) |-> s[Len(s) + 1 - k]]

\* the bound b holds of the version w, as the specification words it
BoundHolds(b, w) ==
    CASE b.kind = "Greater" -> LexRank(b.v) < LexRank(w)
      [] b.kind = "GreaterEqual" -> LexRank(b.v) <= LexRank(w)
      [] b.kind = "Less" -> LexRank(b.v) > LexRank(w)
      [] b.kind = "LessEqual" -> LexRank(b.v) >= LexRank(w)

\* ------------------------------------------------------------------------
\* Properties of Condition::compare (specification SpecCompare)
\* ------------------------------------------------------------------------
\* C1: for Range(lower, upper) with a Greater/GreaterEqual lower bound and
\* an absent or Less/LessEqual upper bound, compare is true iff the lower
\* bound holds and the upper bound is absent or holds, in the
\* lexicographic order of (major, minor, patch); a failed lower bound
\* gives false.
C1_RangeCompare ==
    (Compared /\ self.kind = "Range" /\ WellFormed(self)) =>
        /\ outcome.value =
             Returned(/\ BoundHolds(self.left, candidate)
                      /\ (self.right.some =>
                            BoundHolds(self.right.value, candidate)))
        /\ (~BoundHolds(self.left, candidate) =>
                outcome.value = Returned(FALSE))

\* a range with both bounds that accepts a version whose patch is larger
\* than the patch of the upper bound and whose pre_release is not empty
C1_Witness ==
    /\ Compared
    /\ self.kind = "Range" /\ WellFormed(self) /\ self.right.some
    /\ outcome.value = Returned(TRUE)
    /\ candidate.patch > self.right.value.v.patch
    /\ candidate.minor < self.left.v.minor
    /\ candidate.pre_release # <<>>

\* C2: CompatibleWithMostRecent(v).compare(version) is true iff the majors
\* are equal and (version.minor, version.patch) >= (v.minor, v.patch)
\* lexicographically; pre_release and metadata play no part.
C2_CaretCompare ==
    (Compared /\ self.kind = "CompatibleWithMostRecent") =>
        outcome.value =
            Returned(/\ candidate.major = self.v.major
                     /\ \/ candidate.minor > self.v.minor
                        \/ /\ candidate.minor = self.v.minor
                           /\ candidate.patch >= self.v.patch)

\* accepted on a larger minor although the patch is smaller, the
\* pre_release lists differing
C2_Witness ==
    /\ Compared
    /\ self.kind = "CompatibleWithMostRecent"
    /\ candidate.minor > self.v.minor
    /\ candidate.patch < self.v.patch
    /\ candidate.pre_release # self.v.pre_release
    /\ outcome.value = Returned(TRUE)

\* C3: Compatible(v).compare(version) is true iff major and minor are
\* equal and v.patch <= version.patch; pre_release and metadata play no
\* part.
C3_TildeCompare ==
    (Compared /\ self.kind = "Compatible") =>
        outcome.value =
            Returned(/\ self.v.major = candidate.major
                     /\ self.v.minor = candidate.minor
                     /\ self.v.patch <= candidate.patch)

\* accepted with equal patches and different metadata
C3_Witness ==
    /\ Compared
    /\ self.kind = "Compatible"
    /\ candidate.patch = self.v.patch
    /\ candidate.metadata # self.v.metadata
    /\ outcome.value = Returned(TRUE)

\* C4: Simple(v).compare(version) is true iff v and version agree on
\* major, minor, patch, pre_release and metadata.
C4_SimpleCompare ==
    (Compared /\ self.kind = "Simple") =>
        outcome.value = Returned(self.v = candidate)

\* same major.minor.patch, different pre_release: no match
C4_Witness ==
    /\ Compared
    /\ self.kind = "Simple"
    /\ LexRank(self.v) = LexRank(candidate)
    /\ self.v.metadata = candidate.metadata
    /\ self.v.pre_release # candidate.pre_release
    /\ outcome.value = Returned(FALSE)

\* C5: for a Composite whose ranges are well formed, compare is true iff
\* the compare of at least one element is true (false for the empty
\* list), and the list in reverse order gives the same answer.
C5_CompositeCompare ==
    (Compared /\ self.kind = "Composite" /\ WellFormed(self)) =>
        /\ outcome.value =
             Returned(\E k \in 1..Len(self.conditions) :
                        compare(self.conditions[k], candidate) = Returned(TRUE))
        /\ compare(Composite(Reverse(self.conditions)), candidate)
             = outcome.value

\* a list whose first element rejects and whose last element accepts
C5_Witness ==
    /\ Compared
    /\ self.kind = "Composite" /\ WellFormed(self)
    /\ Len(self.conditions) >= 2
    /\ compare(self.conditions[1], candidate) = Returned(FALSE)
    /\ compare(self.conditions[Len(self.conditions)], candidate)
         = Returned(TRUE)
    /\ outcome.value = Returned(TRUE)

\* C6 as stated: compare returns true or false for every Condition value,
\* a Range with any ConditionRange in either slot included.
C6_TotalOnEveryValue == Compared => ~outcome.value.aborted

\* C6, amended: compare returns true or false for every Condition whose
\* ranges are well formed; on a Range it aborts exactly when the first
\* slot is Less/LessEqual, or the lower bound holds and the second slot
\* is Greater/GreaterEqual.
C6_TotalOnWellFormed ==
    /\ (Compared /\ WellFormed(self)) => ~outcome.value.aborted
    /\ (Compared /\ self.kind = "Range") =>
          (outcome.value.aborted <=>
              \/ self.left.kind \in UpperKinds
              \/ /\ self.left.kind \in LowerKinds
                 /\ BoundHolds(self.left, candidate)
                 /\ self.right.some
                 /\ self.right.value.kind \in LowerKinds)

\* a well-formed range with a LessEqual upper bound that is reached
C6_Witness ==
    /\ Compared
    /\ self.kind = "Range" /\ WellFormed(self)
    /\ self.right.some /\ self.right.value.kind = "LessEqual"
    /\ BoundHolds(self.left, candidate)
    /\ ~outcome.value.aborted

\* ------------------------------------------------------------------------
\* Helpers of the properties of Version::parse
\* ------------------------------------------------------------------------
RECURSIVE IndexFrom(_, _, _)
\* the first index k >= from with s[k] in chars, or 0
IndexFrom(s, from, chars) ==
    IF from > Len(s) THEN 0
    ELSE IF s[from] \in chars THEN from
    ELSE IndexFrom(s, from + 1, chars)

RECURSIVE Split(_, _)
\* the pieces of s between the occurrences of sep
Split(s, sep) ==
    LET k == IndexFrom(s, 1, {sep}) IN
    IF k = 0 THEN <<s>>
    ELSE <<SubSeq(s, 1, k - 1)>> \o Split(SubSeq(s, k + 1, Len(s)), sep)

RECURSIVE NonEmpty(_)
NonEmpty(ps) ==
    IF ps = <<>> THEN <<>>
    ELSE IF Head(ps) = <<>> THEN NonEmpty(Tail(ps))
    ELSE <<Head(ps)>> \o NonEmpty(Tail(ps))

IsDigitRun(p) == p # <<>> /\ \A k \in 1..Len(p) : p[k] \in Digits

\* MAJOR, MAJOR.MINOR or MAJOR.MINOR.PATCH, each a non-empty digit run
IsCoreText(s) ==
    LET ps == Split(s, ".") IN
        Len(ps) \in 1..3 /\ \A k \in 1..Len(ps) : IsDigitRun(ps[k])

\* a digit run without a leading zero, of a value within u32
IsDecimalU32(p) ==
    /\ IsDigitRun(p)
    /\ (Len(p) = 1 \/ p[1] # "0")
    /\ FitsU32(p)

\* the text between the first '-' and the next '+', when the '-' comes
\* before every '+'
PreReleaseText(s) ==
    LET k == IndexFrom(s, 1, {"-", "+"}) IN
    IF k = 0 \/ s[k] = "+" THEN <<>>
    ELSE LET e == IndexFrom(s, k + 1, {"+"}) IN
        SubSeq(s, k + 1, IF e = 0 THEN Len(s) ELSE e - 1)

\* ------------------------------------------------------------------------
\* Properties of Version::parse (specification Spec)
\* ------------------------------------------------------------------------
\* C7 as stated: for every text MAJOR, MAJOR.MINOR or MAJOR.MINOR.PATCH of
\* non-empty digit runs, Version::parse succeeds, each written component
\* has the value of its digits and each unwritten one is 0.
C7_EveryDigitRunParses ==
    (Parsed /\ IsCoreText(input)) =>
        LET ps == Split(input, ".") IN
        /\ result.value.ok
        /\ result.value.value.major = DecimalValue(ps[1])
        /\ result.value.value.minor =
             (IF Len(ps) >= 2 THEN DecimalValue(ps[2]) ELSE 0)
        /\ result.value.value.patch =
             (IF Len(ps) >= 3 THEN DecimalValue(ps[3]) ELSE 0)

\* C7, amended: the same for the texts whose components have no leading
\* zero (`0` itself, or a digit run that starts with 1..9) and a value of
\* at most 2^32 - 1; the decimal text of each written component is the
\* component as written.
C7_CanonicalCoreParses ==
    (Parsed /\ IsCoreText(input)
       /\ \A k \in 1..Len(Split(input, ".")) :
            IsDecimalU32(Split(input, ".")[k])) =>
        LET ps == Split(input, ".") IN
        /\ result.value.ok
        /\ to_string(result.value.value.major) = ps[1]
        /\ IF Len(ps) >= 2
             THEN to_string(result.value.value.minor) = ps[2]
             ELSE result.value.value.minor = 0
        /\ IF Len(ps) >= 3
             THEN to_string(result.value.value.patch) = ps[3]
             ELSE result.value.value.patch = 0
        /\ result.value.value.pre_release = <<>>
        /\ result.value.value.metadata = <<>>

\* MAJOR.MINOR.PATCH with a minor of 0 and a patch that is not 0
C7_Witness ==
    /\ Parsed
    /\ IsCoreText(input)
    /\ Len(Split(input, ".")) = 3
    /\ result.value.ok
    /\ result.value.value.minor = 0
    /\ result.value.value.patch > 0

\* C8: when Version::parse succeeds, pre_release is the list of the
\* dot-separated identifiers written in the pre-release segment of the
\* text, in order and unchanged, an identifier made of hyphens included.
C8_NoIdentifierDropped ==
    (Parsed /\ result.value.ok) =>
        result.value.value.pre_release
            = NonEmpty(Split(PreReleaseText(input), "."))

\* C9: a text CORE-RUN, RUN being letters and digits with hyphens between
\* them, parses with the single pre_release identifier RUN.
C9_EmbeddedHyphenKept ==
    LET k == IndexFrom(input, 1, {"-"})
        core == SubSeq(input, 1, k - 1)
        run == SubSeq(input, k + 1, Len(input))
    IN
    (/\ Parsed
     /\ k > 1
     /\ IsCoreText(core)
     /\ \A j \in 1..Len(Split(core, ".")) : IsDecimalU32(Split(core, ".")[j])
     /\ Len(run) >= 3
     /\ run[1] \in Letters /\ run[Len(run)] \in Letters \cup Digits
     /\ \A j \in 1..Len(run) : run[j] \in Letters \cup Digits \cup {"-"}
     /\ \E j \in 1..Len(run) : run[j] = "-") =>
        /\ result.value.ok
        /\ result.value.value.pre_release = <<run>>
        /\ result.value.value.metadata = <<>>

\* C10: for a token sequence C Hyphen S, C a sequence the builder accepts
\* and S free of Plus, the builder run on C Hyphen S and on C Plus S either
\* succeeds on both, pre_release of the first being metadata of the second
\* and the other two lists empty, or fails on both with InvalidTokenAt at
\* the same index.
C10_MetadataMirrorsPreRelease ==
    LET k == CHOOSE k \in 0..Len(tokens) :
                /\ k > 0 => tokens[k].type \in {"Hyphen", "Plus"}
                /\ \A j \in 1..Len(tokens) :
                      tokens[j].type \in {"Hyphen", "Plus"} => k > 0 /\ k <= j
        mirrored == build_from_tokens([tokens EXCEPT ![k] = Plus])
        r == result.value
    IN
    (/\ Parsed
     /\ k > 0
     /\ tokens[k] = Hyphen
     /\ \A j \in (k + 1)..Len(tokens) : tokens[j].type # "Plus"
     /\ build_from_tokens(SubSeq(tokens, 1, k - 1)).ok) =>
        \/ /\ r.ok /\ mirrored.ok
           /\ r.value.pre_release = mirrored.value.metadata
           /\ r.value.metadata = <<>>
           /\ mirrored.value.pre_release = <<>>
        \/ /\ ~r.ok /\ ~mirrored.ok
           /\ r.error.kind = "InvalidTokenAt"
           /\ mirrored.error = r.error

\* a pre-release segment of two identifiers, one of them with a hyphen
\* before it, accepted
C10_Witness ==
    /\ Parsed
    /\ result.value.ok
    /\ Len(result.value.value.pre_release) = 2
    /\ \E j \in 1..2 : Head(result.value.value.pre_release[j]) = "-"
    /\ result.value.value.metadata = <<>>

\* a pre-release segment rejected after its first identifier
C10_WitnessRejected ==
    /\ Parsed
    /\ ~result.value.ok
    /\ state = "PreRelease"
    /\ version.pre_release # <<>>
    /\ i = Len(tokens) - 1

\* ------------------------------------------------------------------------
\* Claims on Condition::parse
\* ------------------------------------------------------------------------
\* the number of Or tokens of a token list
OrCount(ts) == Cardinality({k \in 1..Len(ts) : ts[k] = Or})

\* the parse of every segment between the Or tokens
SegmentParses(ts) ==
    LET segments == Split(ts, Or) IN
    [j \in 1..Len(segments) |-> Condition_build_from_tokens(segments[j])]

\* C11: a token list with k >= 1 Or tokens whose k + 1 segments all parse
\* yields a Composite of exactly k + 1 elements, the i-th element being
\* the parse of the i-th segment and none of them a Composite; if a
\* segment does not parse, the whole parse fails.
C11_CompositeOfSegments ==
    (Parsed /\ OrCount(tokens) >= 1) =>
        LET parses == SegmentParses(tokens) IN
        /\ Len(parses) = OrCount(tokens) + 1
        /\ IF \A j \in 1..Len(parses) : parses[j].ok
             THEN /\ result.value.ok
                  /\ result.value.value.kind = "Composite"
                  /\ Len(result.value.value.conditions) = OrCount(tokens) + 1
                  /\ \A j \in 1..Len(parses) :
                        /\ result.value.value.conditions[j] = parses[j].value
                        /\ result.value.value.conditions[j].kind # "Composite"
           ELSE ~result.value.ok

\* three alternatives of three different variants, all parsed
C11_Witness ==
    /\ Parsed
    /\ OrCount(tokens) = 2
    /\ result.value.ok
    /\ result.value.value.kind = "Composite"
    /\ Len(result.value.value.conditions) = 3
    /\ result.value.value.conditions[1].kind = "CompatibleWithMostRecent"
    /\ result.value.value.conditions[2].kind = "Compatible"
    /\ result.value.value.conditions[3].kind = "Any"

\* C12: every Range of a successful Condition::parse, at top level or in
\* a Composite, has Greater or GreaterEqual in its first slot and nothing,
\* Less or LessEqual in its second; an alternative that starts with Less
\* or LessEqual is rejected.
C12_ParsedRangeInvariant ==
    Parsed =>
        /\ result.value.ok => WellFormed(result.value.value)
        /\ \A j \in 1..Len(Split(tokens, Or)) :
              LET segment == Split(tokens, Or)[j] IN
              (segment # <<>> /\ segment[1] \in {Less, LessEqual})
                  => ~result.value.ok

\* a parsed Range with both slots, next to another alternative
C12_Witness ==
    /\ Parsed
    /\ result.value.ok
    /\ result.value.value.kind = "Composite"
    /\ \E j \in 1..Len(result.value.value.conditions) :
          /\ result.value.value.conditions[j].kind = "Range"
          /\ result.value.value.conditions[j].left.kind = "Greater"
          /\ result.value.value.conditions[j].right.some
          /\ result.value.value.conditions[j].right.value.kind = "Less"

\* a text that starts with < is rejected at its first token
C12_WitnessRejected ==
    /\ Parsed
    /\ Len(tokens) = 2
    /\ tokens[1] = Less
    /\ result.value = Err(InvalidTokenAt(0))

\* the Range that C13 states for an Or-free token list ts that starts with
\* Greater or GreaterEqual
StatedRange(ts) ==
    LET uppers == {k \in 2..Len(ts) : ts[k] \in {Less, LessEqual}} IN
    IF uppers = {}
      THEN LET l == build_from_tokens(SubSeq(ts, 2, Len(ts))) IN
           IF ~l.ok THEN Err(l.error)
           ELSE Ok(Range(ConditionRange(ts[1].type, l.value), None))
    ELSE LET k == CHOOSE k \in uppers : \A j \in uppers : k <= j
             l == build_from_tokens(SubSeq(ts, 2, k - 1))
             u == build_from_tokens(SubSeq(ts, k + 1, Len(ts)))
         IN
         IF ~l.ok THEN Err(l.error)
         ELSE IF ~u.ok THEN Err(u.error)
         ELSE Ok(Range(ConditionRange(ts[1].type, l.value),
                       Some(ConditionRange(ts[k].type, u.value))))

\* C13: an Or-free token list that starts with Greater or GreaterEqual
\* and holds no Less/LessEqual gives Range(L, None), L built from all the
\* tokens after the first; with the first Less/LessEqual at index k it
\* gives Range(L, Some(U)), L built from the tokens 1..k-1 and U, of the
\* kind of token k, from the tokens after k; a failure of either version
\* build is the error of the parse.
C13_RangeFromTokens ==
    (Parsed /\ OrCount(tokens) = 0 /\ tokens # <<>>
        /\ tokens[1] \in {Greater, GreaterEqual})
    => result.value = StatedRange(tokens)

\* a parsed range whose two bounds are different versions
C13_Witness ==
    /\ Parsed
    /\ OrCount(tokens) = 0
    /\ result.value.ok
    /\ result.value.value.kind = "Range"
    /\ result.value.value.left.kind = "Greater"
    /\ result.value.value.right.some
    /\ result.value.value.right.value.kind = "LessEqual"
    /\ result.value.value.left.v.major # result.value.value.right.value.v.major
    /\ result.value.value.right.value.v.pre_release # <<>>

\* the upper version build fails, and its error is the error of the parse
C13_WitnessUpperFails ==
    /\ Parsed
    /\ tokens # <<>>
    /\ tokens[1] = Greater
    /\ \E k \in 2..Len(tokens) : tokens[k] = Less
    /\ build_from_tokens(SubSeq(tokens, 2, 2)).ok
    /\ ~result.value.ok

\* the variant named kind around the version built from ts, or the error
\* of that build
StatedVariant(kind, ts) ==
    LET v == build_from_tokens(ts) IN
    IF ~v.ok THEN Err(v.error) ELSE Ok([kind |-> kind, v |-> v.value])

\* C14: on an Or-free token list the first token decides the variant:
\* Caret gives CompatibleWithMostRecent(V) and Tilde gives Compatible(V),
\* V built from the tokens after the first; a first token that is none of
\* Asterisk, Caret, Tilde, Greater, GreaterEqual gives Simple(V), V built
\* from the whole list; when the build of V fails, the parse fails with
\* the error of the build.
C14_VariantByFirstToken ==
    (Parsed /\ OrCount(tokens) = 0 /\ tokens # <<>>) =>
        /\ tokens[1] = Caret =>
              result.value = StatedVariant("CompatibleWithMostRecent", Tail(tokens))
        /\ tokens[1] = Tilde =>
              result.value = StatedVariant("Compatible", Tail(tokens))
        /\ tokens[1] \notin {Asterisk, Caret, Tilde, Greater, GreaterEqual} =>
              result.value = StatedVariant("Simple", tokens)

\* ^1.2.3 parsed
C14_Witness ==
    /\ Parsed
    /\ Len(tokens) = 6
    /\ tokens[1] = Caret
    /\ result.value.ok
    /\ result.value.value.kind = "CompatibleWithMostRecent"
    /\ result.value.value.v.patch = 3

\* a tilde text whose version part is rejected by the builder
C14_WitnessError ==
    /\ Parsed
    /\ Len(tokens) > 1
    /\ tokens[1] = Tilde
    /\ ~result.value.ok
    /\ result.value.error.kind = "InvalidTokenAt"

\* C15: Condition::parse returns Any, at top level or as an alternative of
\* a Composite, only for an alternative that is the single token
\* Asterisk; an alternative that starts with Asterisk and holds further
\* tokens is rejected.
C15_AnyOnlyForLoneAsterisk ==
    (Parsed /\ tokens # <<>>) =>
        \A j \in 1..Len(Split(tokens, Or)) :
            LET segment == Split(tokens, Or)[j] IN
            (segment # <<>> /\ segment[1] = Asterisk /\ Len(segment) > 1)
                => ~result.value.ok

\* ------------------------------------------------------------------------
\* Claims on the errors of the version builder
\* ------------------------------------------------------------------------
\* the 0-based index of the first Hyphen or Plus of ts, Len(ts) without one:
\* the tokens before it are read in Core
CoreEnd(ts) ==
    LET k == IndexFrom(ts, 1, {Hyphen, Plus}) IN
    IF k = 0 THEN Len(ts) ELSE k - 1

\* the number of Number tokens among the first j tokens of ts
NumbersBefore(ts, j) == Cardinality({k \in 1..j : ts[k].type = "Number"})

\* the token of ts at the 0-based index j breaks the core grammar, given
\* that the tokens before it do not
BreaksCore(ts, j) ==
    LET curr == ts[j + 1]
        after_number == j >= 1 /\ ts[j].type = "Number"
        after_dot == j >= 1 /\ ts[j] = Dot
    IN
    IF curr = Dot
      THEN ~after_number \/ NumbersBefore(ts, j) = 3
    ELSE IF curr.type = "Number"
      THEN ~(j = 0 \/ (after_dot /\ NumbersBefore(ts, j) < 3))
    ELSE IF curr \in {Hyphen, Plus}
      THEN after_dot
    ELSE TRUE

\* the indices of the tokens read in Core that break the core grammar
CoreBreaks(ts) ==
    {j \in 0..(Len(ts) - 1) : j <= CoreEnd(ts) /\ BreaksCore(ts, j)}

\* C16: in Core, Version::parse fails with InvalidTokenAt(i) where i is
\* the index of the first token that breaks the core grammar (a Dot that
\* does not immediately follow a Number, a Dot after the patch is filled,
\* a Number that is neither the first token nor right after a Dot with a
\* free slot), and the loop stops at that token; without such a token no
\* error is raised in Core.
C16_CoreErrorIndex ==
    (Parsed /\ tokens # <<>>) =>
        LET breaks == CoreBreaks(tokens) IN
        IF breaks # {}
          THEN LET first == CHOOSE j \in breaks : \A k \in breaks : j <= k IN
               /\ result.value = Err(InvalidTokenAt(first))
               /\ state = "Core"
               /\ i = first
          ELSE ~(state = "Core" /\ ~result.value.ok
                   /\ result.value.error.kind = "InvalidTokenAt")

\* 1.0.0. is rejected at its last Dot, the patch being filled
C16_Witness ==
    /\ Parsed
    /\ Len(tokens) > 6
    /\ tokens[6] = Dot
    /\ version.patch.some
    /\ result.value = Err(InvalidTokenAt(5))
    /\ i = 5

\* the second of two Dots in a row is rejected
C16_WitnessDotDot ==
    /\ Parsed
    /\ Len(tokens) >= 3
    /\ tokens[2] = Dot /\ tokens[3] = Dot
    /\ result.value = Err(InvalidTokenAt(2))

\* the 0-based index, in an Or-free token list ts whose parse fails in a
\* version build, of the first token of the slice that build was given
FailingSliceStart(ts) ==
    IF ts[1] \in {Caret, Tilde} THEN 1
    ELSE IF ts[1] \in {Greater, GreaterEqual}
      THEN LET k == IndexFrom(ts, 1, {Less, LessEqual}) IN
           IF k = 0 THEN 1
           ELSE IF ~build_from_tokens(SubSeq(ts, 2, k - 1)).ok THEN 1
           ELSE k
    ELSE 0

RECURSIVE SegmentStart(_, _)
\* the 0-based index in the whole token list of the first token of the
\* j-th segment of segments
SegmentStart(segments, j) ==
    IF j = 1 THEN 0
    ELSE SegmentStart(segments, j - 1) + Len(segments[j - 1]) + 1

\* the position in the whole token list ts of the token on which the
\* first failing version build stopped
OffendingPosition(ts) ==
    LET segments == Split(ts, Or)
        parses == SegmentParses(ts)
        failing == {j \in 1..Len(parses) : ~parses[j].ok}
        first == CHOOSE j \in failing : \A k \in failing : j <= k
    IN
    SegmentStart(segments, first) + FailingSliceStart(segments[first])
        + parses[first].error.index

\* C17: whenever Condition::parse returns InvalidTokenAt(i), i is the
\* position of the offending token in the token list of the whole input,
\* also after an operator prefix, after < or <=, and in a later
\* alternative of ||.
C17_IndexInWholeInput ==
    (Parsed /\ ~result.value.ok /\ result.value.error.kind = "InvalidTokenAt")
        => result.value.error.index = OffendingPosition(tokens)

\* C18: a non-empty token list that passes the state machine without a
\* Number for the major (it starts with Hyphen or Plus) is rejected with
\* MissingSymbolAt(0); the builder returns a Version only with the major
\* taken from a Number token at index 0.
C18_MajorFromFirstNumber ==
    (Parsed /\ tokens # <<>>) =>
        /\ i = Len(tokens) =>
              IF tokens[1].type = "Number"
                THEN /\ result.value.ok
                     /\ result.value.value.major = tokens[1].n
                ELSE /\ tokens[1] \in {Hyphen, Plus}
                     /\ result.value = Err(MissingSymbolAt(0))
        /\ result.value.ok => i = Len(tokens)
        /\ (~result.value.ok /\ result.value.error.kind = "MissingSymbolAt") =>
              i = Len(tokens)

\* a text that starts with a hyphen passes PreRelease and is rejected at
\* the end
C18_Witness ==
    /\ Parsed
    /\ Len(tokens) >= 3
    /\ tokens[1] = Hyphen
    /\ i = Len(tokens)
    /\ version.pre_release # <<>>
    /\ result.value = Err(MissingSymbolAt(0))

\* ------------------------------------------------------------------------
\* Claims on EmptyInput and EmptyTokenList
\* ------------------------------------------------------------------------
\* a text of whitespace only, the empty text included
Blank(s) == \A k \in 1..Len(s) : s[k] \in Whitespace

\* a text of separators only, after an optional = or v at its start
OnlySeparators(s) ==
    \A k \in 1..Len(s) :
        \/ s[k] \in {" ", ","}
        \/ k = 1 /\ s[k] \in {"=", "v"}

\* the text s without the whitespace at its two ends
Inner(s) ==
    LET solid == {k \in 1..Len(s) : s[k] \notin Whitespace} IN
    IF solid = {} THEN <<>>
    ELSE SubSeq(s, CHOOSE k \in solid : \A j \in solid : k <= j,
                   CHOOSE k \in solid : \A j \in solid : k >= j)

\* C19: Version::parse and Condition::parse both return EmptyInput when
\* the input is empty after trimming, and EmptyTokenList when the trimmed
\* input is not empty but tokenizes to no token: only separators, or only
\* the = or v prefix.
C19_EmptyInputAndEmptyTokenList ==
    Parsed =>
        /\ Blank(input) =>
              /\ result.value = Err(EmptyInput)
              /\ Version_parse(input) = Err(EmptyInput)
        /\ (~Blank(input) /\ OnlySeparators(Inner(input))) =>
              /\ result.value = Err(EmptyTokenList)
              /\ Version_parse(input) = Err(EmptyTokenList)
        /\ ~Blank(input) =>
              /\ result.value # Err(EmptyInput)
              /\ Version_parse(input) # Err(EmptyInput)

\* a comma between two spaces: not empty after the trim, no token
C19_Witness ==
    /\ Parsed
    /\ Len(input) = 3
    /\ input[1] \in Whitespace
    /\ input[2] = ","
    /\ result.value = Err(EmptyTokenList)
    /\ Version_parse(input) = Err(EmptyTokenList)

\* a text of one space is empty after the trim
C19_WitnessEmptyInput ==
    /\ Parsed
    /\ input = <<" ">>
    /\ result.value = Err(EmptyInput)

\* the v prefix alone leaves no token
C19_WitnessPrefix ==
    /\ Parsed
    /\ Inner(input) = <<"v">>
    /\ Len(input) = 3
    /\ result.value = Err(EmptyTokenList)

\* C20: EmptyTokenList is returned only when the non-empty input as a
\* whole tokenizes to no token; an input with tokens (an operator without
\* a version after it, a || with an empty side) never yields it.
C20_EmptyTokenListOnlyWithoutTokens ==
    (Parsed /\ result.value = Err(EmptyTokenList)) =>
        /\ tokenize(trim(input)).ok
        /\ tokenize(trim(input)).value = <<>>

\* ------------------------------------------------------------------------
\* Claims on tokenize
\* ------------------------------------------------------------------------
RECURSIVE AlnumRuns(_)
\* the maximal runs of alphanumeric characters of the text s, in order
AlnumRuns(s) ==
    IF s = <<>> THEN <<>>
    ELSE IF ~is_alphanumeric(s[1]) THEN AlnumRuns(Tail(s))
    ELSE LET stops == {k \in 1..Len(s) : ~is_alphanumeric(s[k])}
             e == IF stops = {} THEN Len(s) + 1
                  ELSE CHOOSE k \in stops : \A j \in stops : k <= j
         IN <<SubSeq(s, 1, e - 1)>> \o AlnumRuns(SubSeq(s, e, Len(s)))

\* the one token stated for a run: Number for a digit run within u32,
\* AlphaNumeric for every other run
RunToken(run) ==
    IF IsDigitRun(run) /\ FitsU32(run)
      THEN Number(DecimalValue(run))
      ELSE AlphaNumeric(run)

\* the Number and AlphaNumeric tokens of a token list, in order
RunTokens(ts) ==
    SelectSeq(ts, LAMBDA t : t.type \in {"Number", "AlphaNumeric"})

\* the text that the loop of tokenize scans: s without its one leading
\* = or v
Scanned(s) == IF s # <<>> /\ s[1] \in {"=", "v"} THEN Tail(s) ELSE s

RECURSIVE ZeroSplit(_)
\* the tokens of a run: a leading 0 is a Number(0) of its own and the
\* rest of the run is read as a run again
ZeroSplit(run) ==
    IF run = <<>> THEN <<>>
    ELSE IF run[1] = "0" THEN <<Number(0)>> \o ZeroSplit(Tail(run))
    ELSE <<RunToken(run)>>

RECURSIVE Flatten(_)
Flatten(ss) == IF ss = <<>> THEN <<>> ELSE Head(ss) \o Flatten(Tail(ss))

\* C21 as stated: every maximal run of alphanumeric characters of the
\* input yields exactly one token, Number(n) when the run is the decimal
\* form of a u32 n and AlphaNumeric(run) otherwise.
C21_EveryRunOneToken ==
    (pc # "parse" /\ tokens # <<>>) =>
        LET runs == AlnumRuns(trim(input)) IN
        RunTokens(tokens) = [k \in 1..Len(runs) |-> RunToken(runs[k])]

\* C21 amended: every maximal run of alphanumeric characters of the
\* scanned text (the trimmed input without its one leading = or v) that
\* does not start with 0 yields exactly one token, Number(n) for a digit
\* run of value n within u32 and AlphaNumeric(run) otherwise; a run that
\* starts with 0 yields Number(0) and then the tokens of its rest.
C21_RunTokensAfterZeroArm ==
    (pc # "parse" /\ tokens # <<>>) =>
        LET runs == AlnumRuns(Scanned(trim(input))) IN
        RunTokens(tokens) = Flatten([k \in 1..Len(runs) |-> ZeroSplit(runs[k])])

\* a text with a run above u32, kept as one AlphaNumeric token
C21_Witness ==
    /\ pc = "done"
    /\ Len(tokens) = 3
    /\ tokens[1] = Number(1)
    /\ tokens[3].type = "AlphaNumeric"
    /\ Len(tokens[3].s) = 10
    /\ IsDigitRun(tokens[3].s)

\* a run that starts with 0 and goes on with a letter and digits
C21_WitnessZero ==
    /\ pc = "done"
    /\ Len(tokens) >= 4
    /\ tokens[3] = Number(0)
    /\ tokens[4].type = "AlphaNumeric"
    /\ tokens[4].s = <<"a", "0">>

\* C22: tokenize drops exactly one leading = or v: for every text s that
\* does not start with = or v, tokenize("=" + s) and tokenize("v" + s)
\* give the result of tokenize(s), and a second prefix character is
\* scanned as ordinary input (a second = is an invalid character, a
\* second v starts an AlphaNumeric run).
C22_OnePrefixDropped ==
    LET s == trim(input) IN
    /\ (s = <<>> \/ s[1] \notin {"=", "v"}) =>
          /\ tokenize(<<"=">> \o s) = tokenize(s)
          /\ tokenize(<<"v">> \o s) = tokenize(s)
          /\ (pc # "parse" /\ tokens # <<>>) =>
                tokenize(<<"v">> \o s) = Ok(tokens)
    /\ (Len(s) >= 2 /\ s[1] \in {"=", "v"}) =>
          /\ s[2] = "=" => tokenize(s) = Err(InvalidToken("="))
          /\ (s[2] = "v" /\ pc # "parse" /\ tokens # <<>>) =>
                /\ tokens[1].type = "AlphaNumeric"
                /\ tokens[1].s[1] = "v"
          /\ (pc # "parse" /\ tokens # <<>>) =>
                tokens = tokenize(<<"=">> \o Tail(s)).value

\* a text without prefix was tokenized, and so is the text with a prefix
C22_Witness ==
    /\ pc = "done"
    /\ Len(tokens) = 3
    /\ input[1] = "1"
    /\ tokenize(<<"v">> \o input) = Ok(tokens)
    /\ tokenize(<<"=">> \o input) = Ok(tokens)

\* = before v: the = is dropped and the v is the start of a run
C22_WitnessSecondPrefix ==
    /\ pc = "done"
    /\ input = <<"=", "v", "1">>
    /\ tokens = <<AlphaNumeric(<<"v", "1">>)>>

\* ------------------------------------------------------------------------
\* Claims on Display
\* ------------------------------------------------------------------------
\* C23: for every Version returned by Version::parse with empty
\* pre_release and empty metadata, Version::parse of its Display text
\* succeeds and returns the same major, minor and patch.
C23_DisplayRoundTrip ==
    (Parsed /\ result.value.ok
        /\ result.value.value.pre_release = <<>>
        /\ result.value.value.metadata = <<>>)
    => LET again == Version_parse(Version_fmt(result.value.value)) IN
       /\ again.ok
       /\ again.value.major = result.value.value.major
       /\ again.value.minor = result.value.value.minor
       /\ again.value.patch = result.value.value.patch

\* 10.1 is displayed as 10.1.0, a text unlike the input, and parsed again
C23_Witness ==
    /\ Parsed
    /\ result.value.ok
    /\ result.value.value.major = 10
    /\ result.value.value.minor = 1
    /\ result.value.value.pre_release = <<>>
    /\ result.value.value.metadata = <<>>
    /\ Version_fmt(result.value.value) = <<"1", "0", ".", "1", ".", "0">>
    /\ Version_fmt(result.value.value) # trim(input)

\* ------------------------------------------------------------------------
\* Claims on the states of the version builder
\* ------------------------------------------------------------------------
\* C24: the hyphen accumulator is empty whenever the version state
\* machine changes state (Core to PreRelease, Core to Metadata, PreRelease
\* to Metadata), so hyphens accumulated in the pre-release segment never
\* become part of a metadata identifier.
C24_AccumulatorEmptyAtChange ==
    [][state' # state =>
          hyphen_accumulator = <<>> /\ hyphen_accumulator' = <<>>]_vars

\* a run of n hyphens
Hyphens(n) == [k \in 1..n |-> "-"]

\* the 1-based position of the token that opened the segment st of ts
SegmentOpen(ts, st) ==
    IF st = "Metadata" THEN IndexFrom(ts, 1, {Plus})
    ELSE IndexFrom(ts, 1, {Hyphen, Plus})

\* the number of Hyphen tokens of ts right before the 1-based position p,
\* back to the position floor, which is not counted
HyphensBefore(ts, p, floor) ==
    LET others == {k \in floor..(p - 1) : ts[k] # Hyphen \/ k = floor} IN
    p - 1 - (CHOOSE k \in others : \A j \in others : k >= j)

\* the token of ts at the 1-based position p starts or continues a run of
\* Hyphen tokens that ends right before an identifier
InHyphenRunOfIdentifier(ts, p) ==
    /\ ts[p] = Hyphen
    /\ \E q \in (p + 1)..Len(ts) :
          /\ ts[q].type \in {"Number", "AlphaNumeric"}
          /\ \A k \in p..(q - 1) : ts[k] = Hyphen

\* C25: in PreRelease and Metadata every identifier, the first one of the
\* segment as well as one that follows a Dot, may be preceded by a run of
\* k >= 1 Hyphen tokens (no hyphen of such a run is rejected), and the
\* entry stored for the identifier is k hyphens followed by its text.
C25_HyphenPrefixedIdentifiers ==
    (pc \in {"loop", "done"} /\ state \in {"PreRelease", "Metadata"}) =>
        /\ ~ /\ pc = "done"
             /\ i < Len(tokens)
             /\ result.value = Err(InvalidTokenAt(i))
             /\ prev \in {Empty, Dot, Hyphen}
             /\ InHyphenRunOfIdentifier(tokens, i + 1)
        /\ prev.type \in {"Number", "AlphaNumeric"} =>
              LET entries == IF state = "PreRelease"
                               THEN version.pre_release
                               ELSE version.metadata
                  k == HyphensBefore(tokens, i, SegmentOpen(tokens, state))
              IN
              /\ entries # <<>>
              /\ entries[Len(entries)] = Hyphens(k) \o IdentifierText(<<>>, prev)

\* the place of a ParsingState in the order Core, PreRelease, Metadata
StateRank(st) ==
    IF st = "Core" THEN 0 ELSE IF st = "PreRelease" THEN 1 ELSE 2

\* C26: during one run of the version builder the state only moves
\* forward (Core to PreRelease, Core to Metadata, PreRelease to Metadata,
\* hence at most two changes and none out of Metadata), prev is Empty
\* right after each change, and major, minor and patch are not written
\* once the machine has left Core.
C26_StateMovesForward ==
    [][/\ StateRank(state') >= StateRank(state)
       /\ state' # state => prev' = Empty
       /\ state # "Core" =>
             /\ version'.major = version.major
             /\ version'.minor = version.minor
             /\ version'.patch = version.patch]_vars

\* right after the second change of state of a run: PreRelease has
\* stored an identifier and Metadata has read nothing yet
C26_Witness ==
    /\ pc = "loop"
    /\ state = "Metadata"
    /\ prev = Empty
    /\ version.pre_release # <<>>
    /\ version.metadata = <<>>
    /\ version.minor.some
    /\ i < Len(tokens)

\* C27: in every token list that the version builder accepts each Dot is
\* immediately followed by another token (a Number in Core, an identifier
\* or a Hyphen in PreRelease and Metadata); a list whose last token is a
\* Dot is rejected with InvalidTokenAt.
C27_DotIsFollowed ==
    (Parsed /\ tokens # <<>>) =>
        /\ result.value.ok =>
              \A k \in 1..Len(tokens) :
                  tokens[k] = Dot =>
                      /\ k < Len(tokens)
                      /\ tokens[k + 1].type \in {"Number", "AlphaNumeric", "Hyphen"}
        /\ tokens[Len(tokens)] = Dot =>
              /\ ~result.value.ok
              /\ result.value.error.kind = "InvalidTokenAt"

\* ------------------------------------------------------------------------
\* Further claims on Condition::parse
\* ------------------------------------------------------------------------
\* C28: Condition::parse never returns ParseError::Unexpected: in range
\* building the trailing slice starts with the Less or LessEqual token
\* that the scan found.
C28_NeverUnexpected ==
    Parsed =>
        /\ result.value # Err(Unexpected)
        /\ ~result.value.ok =>
              result.value.error.kind \in
                  {"EmptyInput", "EmptyTokenList", "InvalidToken",
                   "InvalidTokenAt", "MissingSymbolAt"}

\* range building went through the trailing slice: a lower bound, then a
\* < whose version is rejected
C28_Witness ==
    /\ Parsed
    /\ Len(tokens) >= 4
    /\ tokens[1] = Greater
    /\ tokens[3] = Less
    /\ tokens[4] = Dot
    /\ result.value = Err(InvalidTokenAt(0))

\* a version without pre_release and metadata
Plain(v) == v.pre_release = <<>> /\ v.metadata = <<>>

RECURSIVE AllPlain(_)
\* every version of the condition c is plain
AllPlain(c) ==
    IF c.kind = "Any" THEN TRUE
    ELSE IF c.kind = "Range"
      THEN Plain(c.left.v) /\ (c.right.some => Plain(c.right.value.v))
    ELSE IF c.kind = "Composite"
      THEN \A k \in 1..Len(c.conditions) : AllPlain(c.conditions[k])
    ELSE Plain(c.v)

\* C29: for every Condition c returned by Condition::parse whose versions
\* all have empty pre_release and metadata, Condition::parse of the
\* Display text of c succeeds and returns a Condition equal to c: the
\* same variants, the same versions, the same order of the alternatives.
C29_ConditionDisplayRoundTrip ==
    (Parsed /\ result.value.ok /\ AllPlain(result.value.value)) =>
        Condition_parse(Condition_fmt(result.value.value))
            = Ok(result.value.value)

\* a Composite with a two-sided Range, displayed unlike the input and
\* parsed again
C29_Witness ==
    /\ Parsed
    /\ result.value.ok
    /\ result.value.value.kind = "Composite"
    /\ Len(result.value.value.conditions) = 3
    /\ result.value.value.conditions[2].kind = "Range"
    /\ result.value.value.conditions[2].right.some
    /\ AllPlain(result.value.value)
    /\ Condition_fmt(result.value.value) # trim(input)
    /\ Condition_parse(Condition_fmt(result.value.value)).ok

\* ------------------------------------------------------------------------
\* Further claims on Condition::compare
\* ------------------------------------------------------------------------
\* C30: the operators are nested in what they accept: for every version
\* v and every candidate w, Compatible(v).compare(w) implies
\* CompatibleWithMostRecent(v).compare(w), which implies
\* Range(GreaterEqual(v), None).compare(w).
C30_OperatorsNested ==
    (Compared /\ outcome.value = Returned(TRUE)) =>
        /\ self.kind = "Compatible" =>
              compare(CompatibleWithMostRecent(self.v), candidate)
                  = Returned(TRUE)
        /\ self.kind \in {"Compatible", "CompatibleWithMostRecent"} =>
              compare(Range(ConditionRange("GreaterEqual", self.v), None),
                      candidate) = Returned(TRUE)

\* a candidate that ^v accepts and ~v does not: a later minor with an
\* earlier patch
C30_Witness ==
    /\ Compared
    /\ self.kind = "CompatibleWithMostRecent"
    /\ outcome.value = Returned(TRUE)
    /\ candidate.minor > self.v.minor
    /\ candidate.patch < self.v.patch
    /\ compare(Compatible(self.v), candidate) = Returned(FALSE)
    /\ compare(Range(ConditionRange("GreaterEqual", self.v), None), candidate)
           = Returned(TRUE)

\* a candidate that ~v accepts, and with it ^v
C30_WitnessCompatible ==
    /\ Compared
    /\ self.kind = "Compatible"
    /\ outcome.value = Returned(TRUE)
    /\ candidate.patch > self.v.patch
    /\ compare(CompatibleWithMostRecent(self.v), candidate) = Returned(TRUE)

====
